---- MODULE Spec2Model ----
(***************************************************************************)
(* Model of streamlit_app.py: the keyword validator, the reply parser, the *)
(* brand scan and the script that Streamlit reruns on every interaction.   *)
(*                                                                         *)
(* A Python str is a sequence of one-character strings, so that lower(),   *)
(* strip(), split(), startswith() and the `in` operator are computed on    *)
(* characters the way the interpreter computes them.                       *)
(***************************************************************************)
EXTENDS Integers, Sequences, FiniteSets, TLC

VARIABLES
    api_key,        \* value of the "OpenAI API Key" text input
    target_brand,   \* value of the "Your Brand Name" text input
    keyword,        \* value of the "Search Keyword" text input
    openai_client,  \* st.session_state.openai_client
    pressed,        \* st.button(...) returned True in the last script run
    service,        \* what chat.completions.create did in the last run
    reply,          \* the message content the service returned
    calls,          \* completion calls made by the last script run
    used_client,    \* the handle the last completion call went through
    results,        \* value returned by search_openai
    analysis,       \* value returned by analyze_rankings
    valid,          \* value returned by validate_keyword
    shown,          \* st.warning / st.error / result widgets of the last run
    uncaught,       \* an exception left search_openai in the last run
    first_key,      \* history: the first non-empty API key entered
    writes,         \* history: assignments to session_state.openai_client
    pc              \* position of the function under check / of the session

vars == << api_key, target_brand, keyword, openai_client, pressed, service,
           reply, calls, used_client, results, analysis, valid, shown,
           uncaught, first_key, writes, pc >>

\* Python's None and a present value, kept comparable with each other
None == << >>

Some(x) == << x >>

-----------------------------------------------------------------------------
(* Python str primitives                                                   *)

UpperCase == << "A", "B", "C", "D", "E", "F", "G", "H", "I", "J", "K", "L", "M",
                "N", "O", "P", "Q", "R", "S", "T", "U", "V", "W", "X", "Y", "Z" >>

LowerCase == << "a", "b", "c", "d", "e", "f", "g", "h", "i", "j", "k", "l", "m",
                "n", "o", "p", "q", "r", "s", "t", "u", "v", "w", "x", "y", "z" >>

\* one character of str.lower()
lower_char(c) ==
    IF \E i \in 1..Len(UpperCase) : UpperCase[i] = c
    THEN LowerCase[CHOOSE i \in 1..Len(UpperCase) : UpperCase[i] = c]
    ELSE c

\* s.lower()
str_lower(s) == [i \in 1..Len(s) |-> lower_char(s[i])]

\* the characters str.strip() and str.split() treat as whitespace
is_space(c) == c \in {" ", "\n", "\t", "\r"}

\* sub in s
str_in(sub, s) ==
    \E i \in 0..(Len(s) - Len(sub)) : SubSeq(s, i + 1, i + Len(sub)) = sub

\* s.startswith(p)
str_startswith(s, p) == Len(p) <= Len(s) /\ SubSeq(s, 1, Len(p)) = p

\* s.strip()
str_strip(s) ==
    LET keep == {i \in 1..Len(s) : ~is_space(s[i])}
    IN  IF keep = {} THEN << >>
        ELSE SubSeq(s, CHOOSE i \in keep : \A j \in keep : i <= j,
                       CHOOSE i \in keep : \A j \in keep : j <= i)

RECURSIVE str_split(_)
\* s.split(): the maximal runs of non-whitespace characters, in order
str_split(s) ==
    LET keep == {i \in 1..Len(s) : ~is_space(s[i])}
    IN  IF keep = {} THEN << >>
        ELSE LET b == CHOOSE i \in keep : \A j \in keep : i <= j
                 stops == {i \in b..Len(s) : is_space(s[i])}
                 e == IF stops = {} THEN Len(s) + 1
                      ELSE CHOOSE i \in stops : \A j \in stops : i <= j
             IN  << SubSeq(s, b, e - 1) >> \o str_split(SubSeq(s, e, Len(s)))

RECURSIVE str_split_lines(_)
\* s.split('\n')
str_split_lines(s) ==
    LET nl == {i \in 1..Len(s) : s[i] = "\n"}
    IN  IF nl = {} THEN << s >>
        ELSE LET e == CHOOSE i \in nl : \A j \in nl : i <= j
             IN  << SubSeq(s, 1, e - 1) >> \o str_split_lines(SubSeq(s, e + 1, Len(s)))

\* s.split('. ', 1)[1], defined when '. ' in s
after_dot_space(s) ==
    LET at == {i \in 1..(Len(s) - 1) : s[i] = "." /\ s[i + 1] = " "}
        e == CHOOSE i \in at : \A j \in at : i <= j
    IN  SubSeq(s, e + 2, Len(s))

\* s[:n]
str_prefix(s, n) == SubSeq(s, 1, IF n < Len(s) THEN n ELSE Len(s))

-----------------------------------------------------------------------------
(* validate_keyword                                                        *)

comparison_indicators ==
    { << "v", "s" >>,
      << "v", "e", "r", "s", "u", "s" >>,
      << "c", "o", "m", "p", "a", "r", "e", "d", " ", "t", "o" >>,
      << "b", "e", "t", "t", "e", "r", " ", "t", "h", "a", "n" >>,
      << "a", "l", "t", "e", "r", "n", "a", "t", "i", "v", "e", "s", " ", "t", "o" >> }

context_words ==
    { << "i", "n" >>, << "f", "o", "r" >>, << "u", "s", "i", "n", "g" >> }

question_starters ==
    { << "h", "o", "w" >>, << "w", "h", "a", "t" >>, << "w", "h", "i", "c", "h" >>,
      << "w", "h", "e", "r", "e" >>, << "w", "h", "y" >>, << "w", "h", "e", "n" >>,
      << "i", "s" >>, << "a", "r", "e" >> }

has_comparison(keyword_lower) ==
    \E indicator \in comparison_indicators : str_in(indicator, keyword_lower)

has_context(keyword_lower) ==
    \E word \in context_words : str_in(word, keyword_lower)

is_question(keyword_lower) ==
    \E word \in question_starters : str_startswith(keyword_lower, word)

\* the variant that forgets the word count beside has_context
validate_keyword_anycontext(kw) ==
    IF kw = << >> THEN FALSE
    ELSE LET keyword_lower == str_lower(kw)
         IN  \/ Len(str_split(keyword_lower)) >= 4
             \/ has_comparison(keyword_lower)
             \/ has_context(keyword_lower)
             \/ is_question(keyword_lower)

\* the variant that asks for four words beside has_context
validate_keyword_context4(kw) ==
    IF kw = << >> THEN FALSE
    ELSE LET keyword_lower == str_lower(kw)
         IN  \/ Len(str_split(keyword_lower)) >= 4
             \/ has_comparison(keyword_lower)
             \/ (has_context(keyword_lower) /\ Len(str_split(keyword_lower)) >= 4)
             \/ is_question(keyword_lower)

validate_keyword(kw) ==
    IF kw = << >> THEN FALSE
    ELSE LET keyword_lower == str_lower(kw)
         IN  \/ Len(str_split(keyword_lower)) >= 4
             \/ has_comparison(keyword_lower)
             \/ (has_context(keyword_lower) /\ Len(str_split(keyword_lower)) >= 3)
             \/ is_question(keyword_lower)

-----------------------------------------------------------------------------
(* Keywords the text input can hold: words joined by single spaces, with   *)
(* or without a leading space, and the empty and whitespace-only inputs.   *)

MaxWords == 4

Vocabulary ==
    { << "B", "e", "s", "t" >>,
      << "f", "o", "r" >>,
      << "v", "s" >>,
      << "H", "o", "w" >>,
      << "i", "s", "l", "a", "n", "d" >>,
      << "a", "l", "t", "e", "r", "n", "a", "t", "i", "v", "e", "s" >>,
      << "t", "o" >>,
      << "c", "a", "t" >> }

RECURSIVE join_words(_)
join_words(ws) ==
    IF Len(ws) = 0 THEN << >>
    ELSE IF Len(ws) = 1 THEN ws[1]
    ELSE ws[1] \o << " " >> \o join_words(Tail(ws))

KeywordInputs ==
    { << >>, << " " >>, << " ", " " >> }
    \cup { lead \o join_words(ws) :
              lead \in { << >>, << " " >> },
              ws \in UNION { [1..n -> Vocabulary] : n \in 1..MaxWords } }

InitRest ==
    /\ api_key = ""
    /\ openai_client = None
    /\ pressed = FALSE
    /\ service = "not_called"
    /\ calls = 0
    /\ used_client = None
    /\ shown = {}
    /\ uncaught = FALSE
    /\ first_key = ""
    /\ writes = 0

InitValidate ==
    /\ InitRest
    /\ keyword \in KeywordInputs
    /\ target_brand = << >>
    /\ reply = << >>
    /\ results = << >>
    /\ analysis = None
    /\ valid = FALSE
    /\ pc = "validate"

ValidateKeyword ==
    /\ pc = "validate"
    /\ valid' = validate_keyword(keyword)
    /\ pc' = "validated"
    /\ UNCHANGED << api_key, target_brand, keyword, openai_client, pressed,
                    service, reply, calls, used_client, results, analysis,
                    shown, uncaught, first_key, writes >>

NextValidate == ValidateKeyword

SpecValidate == InitValidate /\ [][NextValidate]_vars

\* the qualifying words of the documented rule set
qualifying_words ==
    { << "b", "e", "s", "t" >>, << "t", "o", "p" >>, << "f", "r", "e", "e" >>,
      << "p", "r", "i", "c", "i", "n", "g" >>,
      << "a", "l", "t", "e", "r", "n", "a", "t", "i", "v", "e", "s" >>,
      << "h", "o", "w" >> }

\* C4 as stated: a keyword of at least three words that contains a qualifying
\* word (best, top, free, pricing, alternatives, how) is accepted.
C4_QualifyingWordAccepted ==
    ( /\ pc = "validated"
      /\ Len(str_split(keyword)) >= 3
      /\ \E q \in qualifying_words : str_in(q, str_lower(keyword)) )
    => valid = TRUE

\* C4 as amended: a keyword of at least three words that contains one of the
\* strings in, for, using (case-insensitively) is accepted, also when it has
\* fewer than four words, no comparison marker and no leading question word.
C4_ContextWordAccepted ==
    ( /\ pc = "validated"
      /\ Len(str_split(keyword)) >= 3
      /\ \E w \in context_words : str_in(w, str_lower(keyword)) )
    => valid = TRUE

C4_Witness ==
    /\ pc = "validated"
    /\ Len(str_split(keyword)) = 3
    /\ has_context(str_lower(keyword))
    /\ ~has_comparison(str_lower(keyword))
    /\ ~is_question(str_lower(keyword))
    /\ valid = TRUE

-----------------------------------------------------------------------------
(* search_openai                                                           *)

\* lines 73-75: the text of one non-blank reply line
cleaned_result(result) ==
    LET stripped == str_strip(result)
    IN  IF str_in(<< ".", " " >>, str_prefix(stripped, 4))
        THEN after_dot_space(stripped)
        ELSE stripped

RECURSIVE parsed_results_from(_, _)
\* lines 70-80: the loop over enumerate(results, 1), from position idx on
parsed_results_from(lines, idx) ==
    IF idx > Len(lines) THEN << >>
    ELSE ( IF str_strip(lines[idx]) # << >>
           THEN << [rank |-> idx, result |-> cleaned_result(lines[idx])] >>
           ELSE << >> )
         \o parsed_results_from(lines, idx + 1)

\* lines 67-82: the reply text turned into the list of results
parsed_results(results_text) ==
    parsed_results_from(str_split_lines(str_strip(results_text)), 1)

\* The completion call either raises (authentication, network, ...), returns
\* a response without message content (choices empty, content None: the
\* read or the .strip() raises inside the try block), or returns a text.
ServiceOutcomes == { "raised", "malformed", "ok" }

\* the variant whose try block ends after the completion call
search_openai_narrow_try(client, outcome, results_text) ==
    IF client = None
    THEN [results |-> << >>, shown |-> {"error_client_not_initialized"},
          calls |-> 0, used |-> None, uncaught |-> FALSE]
    ELSE IF outcome = "raised"
    THEN [results |-> << >>, shown |-> {"error_search"},
          calls |-> 1, used |-> client, uncaught |-> FALSE]
    ELSE IF outcome = "malformed"
    THEN [results |-> << >>, shown |-> {},
          calls |-> 1, used |-> client, uncaught |-> TRUE]
    ELSE [results |-> parsed_results(results_text), shown |-> {},
          calls |-> 1, used |-> client, uncaught |-> FALSE]

\* lines 46-86. The except clause covers the call and the parsing alike, so
\* every Exception raised after line 52 ends in st.error and return [].
search_openai(client, outcome, results_text) ==
    IF client = None
    THEN [results |-> << >>, shown |-> {"error_client_not_initialized"},
          calls |-> 0, used |-> None, uncaught |-> FALSE]
    ELSE IF outcome \in {"raised", "malformed"}
    THEN [results |-> << >>, shown |-> {"error_search"},
          calls |-> 1, used |-> client, uncaught |-> FALSE]
    ELSE [results |-> parsed_results(results_text), shown |-> {},
          calls |-> 1, used |-> client, uncaught |-> FALSE]

-----------------------------------------------------------------------------
(* Reply texts: every string over the alphabet up to MaxReplyLen.          *)

MaxReplyLen == 6

ReplyAlphabet == { "1", ".", " ", "\n", "a" }

ReplyTexts == UNION { [1..n -> ReplyAlphabet] : n \in 0..MaxReplyLen }

InitSearch ==
    /\ api_key = "k1"
    /\ openai_client = Some("k1")
    /\ first_key = "k1"
    /\ writes = 1
    /\ pressed = FALSE
    /\ service \in ServiceOutcomes
    /\ reply \in IF service = "ok" THEN ReplyTexts ELSE { << >> }
    /\ calls = 0
    /\ used_client = None
    /\ shown = {}
    /\ uncaught = FALSE
    /\ keyword = << "H", "o", "w" >>
    /\ target_brand = << >>
    /\ results = << >>
    /\ analysis = None
    /\ valid = FALSE
    /\ pc = "search"

SearchOpenai ==
    /\ pc = "search"
    /\ LET r == search_openai(openai_client, service, reply)
       IN  /\ results' = r.results
           /\ shown' = r.shown
           /\ calls' = r.calls
           /\ used_client' = r.used
           /\ uncaught' = r.uncaught
    /\ pc' = "searched"
    /\ UNCHANGED << api_key, target_brand, keyword, openai_client, pressed,
                    service, reply, analysis, valid, first_key, writes >>

NextSearch == SearchOpenai

SpecSearch == InitSearch /\ [][NextSearch]_vars

\* the non-blank lines of a reply text, in order
NonBlankLines(text) ==
    SelectSeq(str_split_lines(text), LAMBDA l : str_strip(l) # << >>)

\* C1: a reply with N non-blank lines yields N entries, in line order, whose
\* ranks are 1, 2, ..., N (the position among the non-blank lines).
C1_RanksAreOneToN ==
    (pc = "searched" /\ service = "ok") =>
        LET lines == NonBlankLines(reply)
        IN  /\ Len(results) = Len(lines)
            /\ \A i \in 1..Len(results) :
                  /\ results[i].rank = i
                  /\ str_in(results[i].result, lines[i])

\* a line with its leading "<digits>. " removed, if it starts with one
WithoutNumberPrefix(line) ==
    LET t == str_strip(line)
        nondigit == {i \in 1..Len(t) : t[i] \notin {"0", "1", "2", "3", "4", "5", "6", "7", "8", "9"}}
        k == IF nondigit = {} THEN Len(t) + 1
             ELSE CHOOSE i \in nondigit : \A j \in nondigit : i <= j
    IN  IF k > 1 /\ k + 1 <= Len(t) /\ t[k] = "." /\ t[k + 1] = " "
        THEN SubSeq(t, k + 2, Len(t))
        ELSE t

\* C2: the text of every entry is the trimmed line without its leading
\* "<number>. " prefix, and the trimmed line itself when it has none.
C2_OnlyNumberPrefixStripped ==
    (pc = "searched" /\ service = "ok") =>
        LET lines == NonBlankLines(reply)
        IN  /\ Len(results) = Len(lines)
            /\ \A i \in 1..Len(results) :
                  results[i].result = WithoutNumberPrefix(lines[i])

-----------------------------------------------------------------------------
(* analyze_rankings                                                        *)

RECURSIVE scan_no_break(_, _, _)
\* the loop of lines 101-106 without its break: a later match overwrites
scan_no_break(rs, brand_lower, acc) ==
    IF rs = << >> THEN acc
    ELSE IF str_in(brand_lower, str_lower(Head(rs).result))
    THEN scan_no_break(Tail(rs), brand_lower,
                       [acc EXCEPT !.found = TRUE,
                                        !.rank = Some(Head(rs).rank),
                                        !.context = Some(Head(rs).result)])
    ELSE scan_no_break(Tail(rs), brand_lower, acc)

RECURSIVE scan_results(_, _, _)
\* lines 101-106: the loop stops at the first result that holds the brand
scan_results(rs, brand_lower, acc) ==
    IF rs = << >> THEN acc
    ELSE IF str_in(brand_lower, str_lower(Head(rs).result))
    THEN [acc EXCEPT !.found = TRUE,
                          !.rank = Some(Head(rs).rank),
                          !.context = Some(Head(rs).result)]
    ELSE scan_results(Tail(rs), brand_lower, acc)

\* the variant without the break, which keeps the last match
analyze_rankings_no_break(rs, brand) ==
    LET analysis0 == [found |-> FALSE, rank |-> None, context |-> None,
                      total_results |-> Len(rs)]
    IN  IF brand = << >> \/ rs = << >> THEN analysis0
        ELSE scan_no_break(rs, str_lower(brand), analysis0)

\* the variant that tests only `not results`
analyze_rankings_no_brand_guard(rs, brand) ==
    LET analysis0 == [found |-> FALSE, rank |-> None, context |-> None,
                      total_results |-> Len(rs)]
    IN  IF rs = << >> THEN analysis0
        ELSE scan_results(rs, str_lower(brand), analysis0)

\* lines 88-108
analyze_rankings(rs, brand) ==
    LET analysis0 == [found |-> FALSE, rank |-> None, context |-> None,
                      total_results |-> Len(rs)]
    IN  IF brand = << >> \/ rs = << >> THEN analysis0
        ELSE scan_results(rs, str_lower(brand), analysis0)

-----------------------------------------------------------------------------
(* Result lists as search_openai builds them: ranks are line numbers, so   *)
(* they increase along the list without being consecutive; texts are       *)
(* trimmed and non-empty.                                                  *)

MaxLines == 3

ResultTexts ==
    { << "A", "b" >>, << "b", "a" >>, << "c" >> }

BrandInputs ==
    { << >>, << "B" >>, << "a", "b" >>, << "A", "B" >>, << "d" >> }

RECURSIVE sorted_seq(_)
sorted_seq(S) ==
    IF S = {} THEN << >>
    ELSE LET m == CHOOSE i \in S : \A j \in S : i <= j
         IN  << m >> \o sorted_seq(S \ {m})

ResultLists ==
    UNION { { [i \in 1..Cardinality(R) |->
                 [rank |-> sorted_seq(R)[i], result |-> t[i]]] :
              t \in [1..Cardinality(R) -> ResultTexts] } :
            R \in SUBSET (1..MaxLines) }

InitAnalyze ==
    /\ InitRest
    /\ keyword = << >>
    /\ reply = << >>
    /\ results \in ResultLists
    /\ target_brand \in BrandInputs
    /\ analysis = None
    /\ valid = FALSE
    /\ pc = "analyze"

AnalyzeRankings ==
    /\ pc = "analyze"
    /\ analysis' = analyze_rankings(results, target_brand)
    /\ pc' = "analyzed"
    /\ UNCHANGED << api_key, target_brand, keyword, openai_client, pressed,
                    service, reply, calls, used_client, results, valid,
                    shown, uncaught, first_key, writes >>

NextAnalyze == AnalyzeRankings

SpecAnalyze == InitAnalyze /\ [][NextAnalyze]_vars

\* brand occurs in text when letter case is ignored
OccursIgnoringCase(brand, text) ==
    \E off \in 0..(Len(text) - Len(brand)) :
        \A k \in 1..Len(brand) : lower_char(text[off + k]) = lower_char(brand[k])

Occurrences == {i \in 1..Len(results) : OccursIgnoringCase(target_brand, results[i].result)}

\* C3: for a non-empty brand, found holds iff some result's text contains the
\* brand ignoring case; then rank and context are those of the first such
\* result, and otherwise both are None.
C3_FirstMatchWins ==
    (pc = "analyzed" /\ target_brand # << >>) =>
        /\ analysis.found = (Occurrences # {})
        /\ Occurrences # {} =>
              LET first == CHOOSE i \in Occurrences : \A j \in Occurrences : i <= j
              IN  /\ analysis.rank = Some(results[first].rank)
                  /\ analysis.context = Some(results[first].result)
        /\ Occurrences = {} =>
              /\ analysis.rank = None
              /\ analysis.context = None

C3_Witness ==
    /\ pc = "analyzed"
    /\ target_brand # << >>
    /\ target_brand # str_lower(target_brand)
    /\ Cardinality(Occurrences) >= 2
    /\ 1 \notin Occurrences
    /\ analysis.found

\* C8: an empty brand or an empty result list gives found = false with rank
\* and context None, and total_results is always the length of the list.
C8_EmptyInputsNotFound ==
    pc = "analyzed" =>
        /\ analysis.total_results = Len(results)
        /\ (target_brand = << >> \/ results = << >>) =>
              /\ analysis.found = FALSE
              /\ analysis.rank = None
              /\ analysis.context = None

C8_Witness ==
    /\ pc = "analyzed"
    /\ target_brand = << >>
    /\ results # << >>
    /\ analysis.found = FALSE
    /\ analysis.total_results = Len(results)

-----------------------------------------------------------------------------
(* The script. Streamlit runs it from top to bottom on every interaction:  *)
(* a committed text input reruns it with the button False, a press of the  *)
(* button reruns it with the button True.                                  *)

\* OpenAI(api_key=api_key): the handle remembers the key it was built from
OpenAI(key) == Some(key)

\* the variant that rebuilds the handle whenever a key is present
credential_entry_rebuild(client, key, constructed) ==
    IF key # ""
    THEN IF constructed
         THEN [client |-> OpenAI(key), shown |-> {}, wrote |-> TRUE]
         ELSE [client |-> None, shown |-> {"error_init_failed"}, wrote |-> TRUE]
    ELSE [client |-> client, shown |-> {}, wrote |-> FALSE]

\* lines 183-184 with initialize_openai_client (lines 38-44): `constructed`
\* tells whether the OpenAI(...) constructor returned or raised
credential_entry(client, key, constructed) ==
    IF key # "" /\ client = None
    THEN IF constructed
         THEN [client |-> OpenAI(key), shown |-> {}, wrote |-> TRUE]
         ELSE [client |-> None, shown |-> {"error_init_failed"}, wrote |-> TRUE]
    ELSE [client |-> client, shown |-> {}, wrote |-> FALSE]

\* what a run that does not reach search_openai leaves behind
no_search(messages, accepted) ==
    [valid |-> accepted, results |-> << >>, analysis |-> None,
     shown |-> messages, calls |-> 0, used |-> None, uncaught |-> FALSE]

\* the variant that searches without validating the keyword
button_handler_no_validation(button, key, brand, kw, client, outcome, results_text) ==
    IF ~button THEN no_search({}, FALSE)
    ELSE IF key = "" \/ kw = << >> \/ brand = << >>
    THEN no_search({"warning_fill_fields"}, FALSE)
    ELSE LET r == search_openai(client, outcome, results_text)
             a == analyze_rankings(r.results, brand)
         IN  [valid |-> TRUE, results |-> r.results,
              analysis |-> IF r.results # << >> THEN a ELSE None,
              shown |-> r.shown \cup
                        ( IF r.results = << >> THEN {}
                          ELSE IF a.found THEN {"results_table", "brand_found"}
                          ELSE {"results_table", "brand_not_found"} ),
              calls |-> r.calls, used |-> r.used, uncaught |-> r.uncaught]

\* lines 197-243
button_handler(button, key, brand, kw, client, outcome, results_text) ==
    IF ~button THEN no_search({}, FALSE)
    ELSE IF key = "" \/ kw = << >> \/ brand = << >>
    THEN no_search({"warning_fill_fields"}, FALSE)
    ELSE IF ~validate_keyword(kw)
    THEN no_search({"warning_keyword"}, FALSE)
    ELSE LET r == search_openai(client, outcome, results_text)
             a == analyze_rankings(r.results, brand)
         IN  [valid |-> TRUE, results |-> r.results,
              analysis |-> IF r.results # << >> THEN a ELSE None,
              shown |-> r.shown \cup
                        ( IF r.results = << >> THEN {}
                          ELSE IF a.found THEN {"results_table", "brand_found"}
                          ELSE {"results_table", "brand_not_found"} ),
              calls |-> r.calls, used |-> r.used, uncaught |-> r.uncaught]

MaxWrites == 2

ApiKeys == { "", "k1", "k2" }

SessionBrands == { << >>, << "f", "o", "o" >> }

SessionKeywords == { << >>, << "c", "a", "t" >>, << "H", "o", "w", " ", "t", "o" >> }

SessionReplies ==
    { << >>,
      << " ", "\n", " " >>,
      << "1", ".", " ", "F", "o", "o", "\n", "\n", "2", ".", " ", "b" >> }

\* lines 13-15
Init ==
    /\ InitRest
    /\ keyword = << >>
    /\ target_brand = << >>
    /\ reply = << >>
    /\ results = << >>
    /\ analysis = None
    /\ valid = FALSE
    /\ pc = "session"

\* one run of the script with the widgets holding key, brand, kw
RunScript(key, brand, kw, button) ==
    /\ pc = "session"
    /\ \E constructed \in BOOLEAN, outcome \in ServiceOutcomes, text \in SessionReplies :
          LET c == credential_entry(openai_client, key, constructed)
              h == button_handler(button, key, brand, kw, c.client, outcome, text)
          IN  /\ api_key' = key
              /\ target_brand' = brand
              /\ keyword' = kw
              /\ openai_client' = c.client
              /\ pressed' = button
              /\ service' = IF h.calls = 1 THEN outcome ELSE "not_called"
              /\ reply' = IF h.calls = 1 /\ outcome = "ok" THEN text ELSE << >>
              /\ calls' = h.calls
              /\ used_client' = h.used
              /\ results' = h.results
              /\ analysis' = h.analysis
              /\ valid' = h.valid
              /\ shown' = c.shown \cup h.shown
              /\ uncaught' = h.uncaught
              /\ first_key' = IF first_key = "" THEN key ELSE first_key
              /\ writes' = IF c.wrote /\ writes < MaxWrites THEN writes + 1 ELSE writes
    /\ pc' = pc

EnterApiKey == \E key \in ApiKeys \ {api_key} : RunScript(key, target_brand, keyword, FALSE)

EnterBrand == \E brand \in SessionBrands \ {target_brand} : RunScript(api_key, brand, keyword, FALSE)

EnterKeyword == \E kw \in SessionKeywords \ {keyword} : RunScript(api_key, target_brand, kw, FALSE)

PressAnalyze == RunScript(api_key, target_brand, keyword, TRUE)

Next == EnterApiKey \/ EnterBrand \/ EnterKeyword \/ PressAnalyze

Spec == Init /\ [][Next]_vars

ErrorMessages == { "error_client_not_initialized", "error_search", "error_init_failed" }

WarningMessages == { "warning_fill_fields", "warning_keyword" }

\* the press got as far as search_openai
SearchEntered ==
    /\ pressed
    /\ api_key # "" /\ keyword # << >> /\ target_brand # << >>
    /\ valid

\* C6: when the completion call raises, the response has no content or the
\* handle is absent, search_openai returns the empty list, an error message is
\* shown, no exception leaves it, and the button can be pressed again.
C6_FailuresContained ==
    (SearchEntered /\ (openai_client = None \/ service \in {"raised", "malformed"})) =>
        /\ results = << >>
        /\ shown \cap {"error_client_not_initialized", "error_search"} # {}
        /\ ~uncaught
        /\ ENABLED PressAnalyze

C6_Witness ==
    /\ SearchEntered
    /\ service = "malformed"
    /\ calls = 1
    /\ "error_search" \in shown
    /\ results = << >>

\* C7: a call that succeeds with an empty or all-blank reply text shows an
\* error message for that press.
C7_EmptyReplyReported ==
    (SearchEntered /\ service = "ok" /\ results = << >>) =>
        shown \cap ErrorMessages # {}

\* C9: a press makes exactly one completion call when the three fields are
\* filled, the keyword validates and a handle is present; otherwise it makes
\* none and shows a warning or an error; a rerun without a press makes none.
C9_OneCallPerValidPress ==
    /\ ~pressed => calls = 0
    /\ pressed =>
          LET ready == /\ api_key # "" /\ keyword # << >> /\ target_brand # << >>
                       /\ validate_keyword(keyword)
                       /\ openai_client # None
          IN  /\ calls = (IF ready THEN 1 ELSE 0)
              /\ ~ready => shown \cap (WarningMessages \cup ErrorMessages) # {}

C9_Witness ==
    /\ pressed
    /\ calls = 1
    /\ service = "ok"
    /\ results # << >>
    /\ openai_client # OpenAI(api_key)

\* C10 as stated: the handle is assigned at most once after its initial None,
\* and a handle that is present was built from the first credential entered.
C10_WrittenOnceFromFirstKey ==
    /\ writes <= 1
    /\ openai_client # None => openai_client = OpenAI(first_key)

\* C10 as amended: a present handle is never replaced by a later rerun; the
\* handle becomes present from the key in the field at the rerun whose
\* construction succeeds (a failed construction assigns None again and the
\* next rerun retries), and every search goes through the stored handle.
C10_HandleNeverReplaced ==
    [][ /\ openai_client # None => openai_client' = openai_client
        /\ (openai_client = None /\ openai_client' # None) => openai_client' = OpenAI(api_key')
        /\ calls' = 1 => (used_client' = openai_client' /\ used_client' # None) ]_vars

C10_Witness ==
    /\ openai_client # None
    /\ openai_client # OpenAI(first_key)
    /\ api_key # ""
    /\ openai_client # OpenAI(api_key)
    /\ calls = 1
    /\ used_client = openai_client

====
